---- MODULE Spec2Model ----
(***************************************************************************)
(* Model of ParallelChordGenerator (src/ParallelChordGenerator.py): the    *)
(* template catalog built by __init__, the chord naming of                 *)
(* _get_chord_name, the render step _save_single, and the coordinator loop *)
(* of generate_all with its ThreadPoolExecutor and as_completed drains.    *)
(*                                                                         *)
(* Text is modelled as sequences of one-character strings so that          *)
(* str.replace, "-".join and the ".mid" suffix are computed, not assumed.  *)
(*                                                                         *)
(* The class fixes the root range to C4..B4 and batch_size to 1000; the    *)
(* dispatcher algorithm is parametric in both, and the model draws the     *)
(* root range and the batch size from bounded sets so that the cap, the    *)
(* drains and every interleaving of the workers are explored.              *)
(***************************************************************************)
EXTENDS Integers, Sequences, FiniteSets, TLC

\* ------------------------------------------------------------- bounds
\* Dispatcher runs: number of roots, progression length, pool size, cap,
\* and the number of renders that may fail in one run.
MaxRoots == 2
MaxChords == 2
MaxWorkers == 3
MaxBatch == 4
MaxFail == 2
\* ... and the number of work units of one run (catalog size ** num_chords).
MaxUnits == 16
\* ... and the same for the runs checked under fairness.
MaxFairUnits == 4
\* Catalog/naming runs: progression length for which all filenames are
\* compared, and the span above C4 of free 3-note inputs to the naming.
MaxNameChords == 2
MaxInterval == 7

\* ------------------------------------------------- program constants
C4 == 48
B4 == 59
major == <<0, 4, 7>>
minor == <<0, 3, 7>>
DefaultNumChords == 4
RefBatchSize == 1000

\* ------------------------------------------------------ pure helpers
\* range(lo, hi + 1) mapped through [n + i for n in shape]
Transpose(shape, i) == [j \in 1..Len(shape) |-> shape[j] + i]

\* range(lo, hi) in place of range(lo, hi + 1): the last root is lost
ShapeTemplates_exclusive(shape, lo, hi) ==
    [k \in 1..(hi - lo) |-> Transpose(shape, lo + k - 1)]

ShapeTemplates(shape, lo, hi) ==
    [k \in 1..(hi - lo + 1) |-> Transpose(shape, lo + k - 1)]

\* self.templates: all major templates by ascending root, then all minor
Templates(lo, hi) == ShapeTemplates(major, lo, hi) \o ShapeTemplates(minor, lo, hi)

\* min(notes)
MinOf(notes) ==
    CHOOSE m \in {notes[k] : k \in DOMAIN notes} :
        \A k \in DOMAIN notes : m <= notes[k]

\* sorted(...): insertion into an ascending sequence
RECURSIVE InsertSorted(_, _)
InsertSorted(x, s) ==
    IF s = <<>> THEN <<x>>
    ELSE IF x <= Head(s) THEN <<x>> \o s
    ELSE <<Head(s)>> \o InsertSorted(x, Tail(s))

RECURSIVE Sorted(_)
Sorted(s) == IF s = <<>> THEN <<>> ELSE InsertSorted(Head(s), Sorted(Tail(s)))

\* pitch.Pitch(midi).name: music21 spells a MIDI number by its pitch class,
\* sharps for 1, 6, 8 and flats (written "-") for 3 and 10; no octave.
PitchClassNames ==
    << <<"C">>, <<"C", "#">>, <<"D">>, <<"E", "-">>, <<"E">>, <<"F">>,
       <<"F", "#">>, <<"G">>, <<"G", "#">>, <<"A">>, <<"B", "-">>, <<"B">> >>

\* the step letter alone (Pitch.step), accidentals dropped
PitchName_step(midi) == <<PitchClassNames[(midi % 12) + 1][1]>>

PitchName(midi) == PitchClassNames[(midi % 12) + 1]

\* str.replace(old, new) for one-character old and new
Replace(s, old, new) == [k \in DOMAIN s |-> IF s[k] = old THEN new ELSE s[k]]

\* the test made against the minor shape, the two labels exchanged
ChordType_swapped(intervals) ==
    IF intervals = minor THEN <<"m", "a", "j", "o", "r">>
                         ELSE <<"m", "i", "n", "o", "r">>

ChordType(intervals) ==
    IF intervals = major THEN <<"m", "a", "j", "o", "r">>
                         ELSE <<"m", "i", "n", "o", "r">>

\* _get_chord_name(notes)
GetChordName(notes) ==
    LET root == MinOf(notes)
        intervals == Sorted([k \in DOMAIN notes |-> notes[k] - root])
    IN  Replace(PitchName(root), "-", "b") \o <<"_">> \o ChordType(intervals)

\* sep.join(parts)
RECURSIVE Join(_, _)
Join(sep, parts) ==
    IF parts = <<>> THEN <<>>
    ELSE IF Len(parts) = 1 THEN parts[1]
    ELSE parts[1] \o sep \o Join(sep, Tail(parts))

\* the filename built from the first chord name only
Filename_first(progression) ==
    (IF progression = <<>> THEN <<>> ELSE GetChordName(progression[1]))
        \o <<".", "m", "i", "d">>

\* the filename _save_single writes: "-".join(chord_names) + ".mid"
Filename(progression) ==
    Join(<<"-">>, [k \in DOMAIN progression |-> GetChordName(progression[k])])
        \o <<".", "m", "i", "d">>

\* len(self.templates) * num_chords in place of **
Pow_times(b, e) == b * e

\* len(self.templates) ** num_chords for num_chords >= 0
RECURSIVE Pow(_, _)
Pow(b, e) == IF e = 0 THEN 1 ELSE b * Pow(b, e - 1)

\* itertools.product(pool, repeat=n): the odometer over index tuples, the
\* last position varying fastest.  ProductFirst is the first index tuple,
\* ProductStep the one after idx, <<0>> standing for exhaustion.
Exhausted == <<0>>

\* the product of no pools taken to be empty
ProductFirst_nonempty(n) == IF n = 0 THEN Exhausted ELSE [k \in 1..n |-> 1]

ProductFirst(n) == [k \in 1..n |-> 1]

\* the odometer turned round: the first position varies fastest
ProductStep_firstfast(idx, K) ==
    LET movable == {p \in DOMAIN idx : idx[p] < K}
    IN  IF movable = {} THEN Exhausted
        ELSE LET p == CHOOSE q \in movable : \A r \in movable : q <= r
             IN  [k \in DOMAIN idx |->
                     IF k > p THEN idx[k] ELSE IF k = p THEN idx[k] + 1 ELSE 1]

\* the odometer without the reset of the positions to the right
ProductStep_noreset(idx, K) ==
    LET movable == {p \in DOMAIN idx : idx[p] < K}
    IN  IF movable = {} THEN Exhausted
        ELSE LET p == CHOOSE q \in movable : \A r \in movable : r <= q
             IN  [k \in DOMAIN idx |-> IF k = p THEN idx[k] + 1 ELSE idx[k]]

ProductStep(idx, K) ==
    LET movable == {p \in DOMAIN idx : idx[p] < K}
    IN  IF movable = {} THEN Exhausted
        ELSE LET p == CHOOSE q \in movable : \A r \in movable : r <= q
             IN  [k \in DOMAIN idx |->
                     IF k < p THEN idx[k] ELSE IF k = p THEN idx[k] + 1 ELSE 1]

\* the tuple of pool elements an index tuple stands for: list(combo)
Combo(pool, idx) == [k \in DOMAIN idx |-> pool[idx[k]]]

\* len(futures) > batch_size: the cap tested one unit late
CapReached_late(fs, cap) == Len(fs) > cap

\* len(futures) >= batch_size
CapReached(fs, cap) == Len(fs) >= cap

\* the drain that leaves the resolved future in the list
Remove_none(s, x) == s

\* futures.remove(future): drops the first occurrence
RECURSIVE Remove(_, _)
Remove(s, x) ==
    IF s = <<>> THEN <<>>
    ELSE IF Head(s) = x THEN Tail(s)
    ELSE <<Head(s)>> \o Remove(Tail(s), x)

\* set(fs) as as_completed takes it on entry
SetOf(s) == {s[k] : k \in DOMAIN s}

\* ------------------------------------------------------------- state
VARIABLES
    low, high,      \* root range of the catalog (C4, B4 in the class)
    num_chords,     \* generate_all argument
    max_workers,    \* generate_all argument
    batch_size,     \* the in-flight cap (1000 in generate_all)
    dir_ok,         \* whether os.makedirs succeeds
    pc,             \* position of the coordinating thread
    templates,      \* self.templates
    total,          \* total
    it,             \* all_combinations: next index tuple, or Exhausted
    i,              \* enumerate() index of the next combo
    futures,        \* futures: list of unit ids (positions in submitted)
    pending,        \* as_completed: futures not yet yielded
    submitted,      \* progressions handed to executor.submit, in order
    status,         \* per unit: "queued", "running", "ok" (True), "failed" (False)
    queue,          \* the pool's work queue
    pbar,           \* pbar.n
    files,          \* filenames present under output_dir
    counted,        \* per unit: how many times pbar.update(1) ran for it
    fails,          \* renders that failed so far
    notes,          \* argument of the last direct _get_chord_name call
    name,           \* its result
    raised,         \* whether it raised
    prev_name,      \* the result of the call before, on the same argument
    reported,       \* the count the summary line prints as generated
    run,            \* which call of generate_all on this generator: 1 or 2
    first_files     \* the filenames the first call left under output_dir

vars == << low, high, num_chords, max_workers, batch_size, dir_ok, pc,
           templates, total, it, i, futures, pending, submitted, status,
           queue, pbar, counted, files, fails, notes, name, raised, prev_name,
           reported, run, first_files >>

config == << low, high, num_chords, max_workers, batch_size, dir_ok >>
coord == << pc, total, it, i, futures, pending, submitted, pbar, counted >>
naming == << notes, name, raised, prev_name >>
runs == << run, first_files >>

Units == 1..Len(submitted)
Running == {u \in Units : status[u] = "running"}
Resolved == {u \in Units : status[u] \in {"ok", "failed"}}
Unresolved == Units \ Resolved

\* ------------------------------------------------------------- init
Blank ==
    /\ pc = "new"
    /\ templates = <<>>
    /\ total = 0
    /\ it = Exhausted
    /\ i = 0
    /\ futures = <<>>
    /\ pending = {}
    /\ submitted = <<>>
    /\ status = <<>>
    /\ queue = <<>>
    /\ pbar = 0
    /\ counted = <<>>
    /\ files = {}
    /\ fails = 0
    /\ notes = <<>>
    /\ name = <<>>
    /\ raised = FALSE
    /\ prev_name = <<>>
    /\ reported = 0
    /\ run = 1
    /\ first_files = {}

Init ==
    /\ low = C4
    /\ high \in C4..(C4 + MaxRoots - 1)
    /\ num_chords \in -1..MaxChords
    /\ num_chords >= 0 => Pow(2 * (high - low + 1), num_chords) <= MaxUnits
    /\ max_workers \in 1..MaxWorkers
    /\ batch_size \in 1..MaxBatch
    /\ dir_ok \in BOOLEAN
    /\ Blank

\* ------------------------------------------------- coordinator steps
\* ParallelChordGenerator()
Construct ==
    /\ pc = "new"
    /\ templates' = Templates(low, high)
    /\ pc' = "init"
    /\ UNCHANGED << config, runs, reported, total, it, i, futures, pending, submitted, status,
                    queue, pbar, counted, files, fails, naming >>

\* the error of os.makedirs swallowed: the run goes on without the directory
MakeDirs_ignore ==
    /\ pc = "init"
    /\ pc' = "setup"
    /\ UNCHANGED << config, runs, reported, templates, total, it, i, futures,
                    pending, submitted, status, queue, pbar, counted, files,
                    fails, naming >>

\* os.makedirs(output_dir, exist_ok=True)
MakeDirs ==
    /\ pc = "init"
    /\ pc' = IF dir_ok THEN "setup" ELSE "aborted"
    /\ UNCHANGED << config, runs, reported, templates, total, it, i, futures, pending,
                    submitted, status, queue, pbar, counted, files, fails, naming >>

\* itertools.product raises ValueError for a negative repeat
\* product(...), total, tqdm(total), ThreadPoolExecutor(...), futures = []
Setup ==
    /\ pc = "setup"
    /\ IF num_chords < 0
         THEN /\ pc' = "aborted"
              /\ UNCHANGED << total, it >>
         ELSE /\ it' = ProductFirst(num_chords)
              /\ total' = Pow(Len(templates), num_chords)
              /\ pc' = "loop"
    /\ futures' = <<>>
    /\ pbar' = 0
    /\ UNCHANGED << config, runs, reported, templates, i, pending, submitted, status, queue,
                    counted, files, fails, naming >>

\* one pass of the for loop: next combo, the safety limit, submit, cap test
Submit ==
    /\ pc = "loop"
    /\ it # Exhausted
    /\ it' = ProductStep(it, Len(templates))
    /\ IF i >= total
         THEN /\ pc' = "final"
              /\ pending' = SetOf(futures)
              /\ UNCHANGED << i, futures, submitted, status, queue, counted >>
         ELSE LET u == Len(submitted) + 1
                  fs == Append(futures, u)
              IN  /\ submitted' = Append(submitted, Combo(templates, it))
                  /\ status' = Append(status, "queued")
                  /\ counted' = Append(counted, 0)
                  /\ queue' = Append(queue, u)
                  /\ futures' = fs
                  /\ i' = i + 1
                  /\ IF CapReached(fs, batch_size)
                       THEN pc' = "drain" /\ pending' = SetOf(fs)
                       ELSE pc' = "loop" /\ pending' = pending
    /\ UNCHANGED << config, runs, reported, templates, total, pbar, files, fails, naming >>

\* for future in futures, without as_completed: a future is counted and
\* removed whether or not it has resolved
DrainStep_eager ==
    /\ pc = "drain"
    /\ \E f \in pending :
          /\ pbar' = pbar + 1
          /\ counted' = [counted EXCEPT ![f] = @ + 1]
          /\ futures' = Remove(futures, f)
          /\ pending' = pending \ {f}
    /\ UNCHANGED << config, runs, reported, pc, templates, total, it, i,
                    submitted, status, queue, files, fails, naming >>

\* for future in as_completed(futures): pbar.update(1); futures.remove(future)
DrainStep ==
    /\ pc = "drain"
    /\ \E f \in pending :
          /\ f \in Resolved
          /\ pbar' = pbar + 1
          /\ counted' = [counted EXCEPT ![f] = @ + 1]
          /\ futures' = Remove(futures, f)
          /\ pending' = pending \ {f}
    /\ UNCHANGED << config, runs, reported, pc, templates, total, it, i, submitted, status,
                    queue, files, fails, naming >>

\* the drain left as soon as the list is below the cap again
DrainEnd_partial ==
    /\ pc = "drain"
    /\ Len(futures) < batch_size
    /\ pc' = "loop"
    /\ UNCHANGED << config, runs, reported, templates, total, it, i, futures,
                    pending, submitted, status, queue, pbar, counted, files,
                    fails, naming >>

\* as_completed is exhausted: back to the for loop
DrainEnd ==
    /\ pc = "drain"
    /\ pending = {}
    /\ pc' = "loop"
    /\ UNCHANGED << config, runs, reported, templates, total, it, i, futures, pending,
                    submitted, status, queue, pbar, counted, files, fails, naming >>

\* the product is exhausted: as_completed(futures) of the remaining tasks
LoopEnd ==
    /\ pc = "loop"
    /\ it = Exhausted
    /\ pc' = "final"
    /\ pending' = SetOf(futures)
    /\ UNCHANGED << config, runs, reported, templates, total, it, i, futures, submitted,
                    status, queue, pbar, counted, files, fails, naming >>

\* for future in as_completed(futures): pbar.update(1)
FinalStep ==
    /\ pc = "final"
    /\ \E f \in pending :
          /\ f \in Resolved
          /\ pbar' = pbar + 1
          /\ counted' = [counted EXCEPT ![f] = @ + 1]
          /\ pending' = pending \ {f}
    /\ UNCHANGED << config, runs, reported, pc, templates, total, it, i, futures, submitted,
                    status, queue, files, fails, naming >>

\* leaving the with block, pbar.close(), the summary line
Finish ==
    /\ pc = "final"
    /\ pending = {}
    /\ Unresolved = {}
    /\ pc' = "done"
    /\ reported' = total
    /\ UNCHANGED << config, runs, templates, total, it, i, futures, pending,
                    submitted, status, queue, pbar, counted, files, fails, naming >>

\* ------------------------------------------------------ worker steps
\* no pool thread takes a task while the coordinating thread is in a drain
WorkerStart_blocked ==
    /\ pc # "drain"
    /\ queue # <<>>
    /\ Cardinality(Running) < max_workers
    /\ status' = [status EXCEPT ![Head(queue)] = "running"]
    /\ queue' = Tail(queue)
    /\ UNCHANGED << config, runs, reported, coord, templates, files, fails,
                    naming >>

\* a thread started for every submitted task, whatever max_workers is
WorkerStart_unbounded ==
    /\ queue # <<>>
    /\ status' = [status EXCEPT ![Head(queue)] = "running"]
    /\ queue' = Tail(queue)
    /\ UNCHANGED << config, runs, reported, coord, templates, files, fails,
                    naming >>

\* a pool thread takes the next work item; at most max_workers threads
WorkerStart ==
    /\ queue # <<>>
    /\ Cardinality(Running) < max_workers
    /\ status' = [status EXCEPT ![Head(queue)] = "running"]
    /\ queue' = Tail(queue)
    /\ UNCHANGED << config, runs, reported, coord, templates, files, fails, naming >>

\* the filename kept in a variable the workers share: a render writes
\* under the name of the task that started last
SaveOk_shared ==
    /\ \E u \in Running :
          LET last == CHOOSE v \in Running : \A w \in Running : w <= v
          IN  /\ status' = [status EXCEPT ![u] = "ok"]
              /\ files' = files \cup {Filename(submitted[last])}
    /\ UNCHANGED << config, runs, reported, coord, templates, queue, fails,
                    naming >>

\* _save_single returns True: the file is written
SaveOk ==
    /\ \E u \in Running :
          /\ status' = [status EXCEPT ![u] = "ok"]
          /\ files' = files \cup {Filename(submitted[u])}
    /\ UNCHANGED << config, runs, reported, coord, templates, queue, fails, naming >>

\* the worker advancing the progress bar itself when its render fails
SaveFail_counts ==
    /\ fails < MaxFail
    /\ \E u \in Running :
          /\ status' = [status EXCEPT ![u] = "failed"]
    /\ fails' = fails + 1
    /\ pbar' = pbar + 1
    /\ UNCHANGED << config, runs, reported, pc, total, it, i, futures, pending,
                    submitted, counted, templates, queue, files, naming >>

\* the exception of a render reaching the coordinating thread
SaveFail_abort ==
    /\ fails < MaxFail
    /\ \E u \in Running :
          /\ status' = [status EXCEPT ![u] = "failed"]
    /\ fails' = fails + 1
    /\ pc' = "aborted"
    /\ UNCHANGED << config, runs, reported, total, it, i, futures, pending, submitted, pbar,
                    counted, templates, queue, files, naming >>

\* _save_single catches an exception and returns False
SaveFail ==
    /\ fails < MaxFail
    /\ \E u \in Running :
          /\ status' = [status EXCEPT ![u] = "failed"]
    /\ fails' = fails + 1
    /\ UNCHANGED << config, runs, reported, coord, templates, queue, files, naming >>

Next ==
    \/ Construct
    \/ MakeDirs
    \/ Setup
    \/ Submit
    \/ DrainStep
    \/ DrainEnd
    \/ LoopEnd
    \/ FinalStep
    \/ Finish
    \/ WorkerStart
    \/ SaveOk
    \/ SaveFail

Spec == Init /\ [][Next]_vars

\* ------------------------------------------------------- fairness
\* the coordinating thread and the pool threads are each scheduled, and
\* every render returns
Coordinator ==
    \/ Construct
    \/ MakeDirs
    \/ Setup
    \/ Submit
    \/ DrainStep
    \/ DrainEnd
    \/ LoopEnd
    \/ FinalStep
    \/ Finish

Worker ==
    \/ WorkerStart
    \/ SaveOk
    \/ SaveFail

FairInit ==
    /\ Init
    /\ num_chords >= 0 => Pow(2 * (high - low + 1), num_chords) <= MaxFairUnits

FairSpec ==
    /\ FairInit
    /\ [][Next]_vars
    /\ WF_vars(Coordinator)
    /\ WF_vars(Worker)

\* ------------------------------------------------------- two calls
\* generate_all called a second time on the same generator, with the same
\* arguments, once output_dir has been emptied again
Rerun ==
    /\ pc = "done"
    /\ run = 1
    /\ run' = 2
    /\ first_files' = files
    /\ files' = {}
    /\ pc' = "init"
    /\ total' = 0
    /\ it' = Exhausted
    /\ i' = 0
    /\ futures' = <<>>
    /\ pending' = {}
    /\ submitted' = <<>>
    /\ status' = <<>>
    /\ queue' = <<>>
    /\ pbar' = 0
    /\ counted' = <<>>
    /\ reported' = 0
    /\ UNCHANGED << config, templates, fails, naming >>

\* two calls in a row, every render succeeding
NextTwice ==
    \/ Construct
    \/ MakeDirs
    \/ Setup
    \/ Submit
    \/ DrainStep
    \/ DrainEnd
    \/ LoopEnd
    \/ FinalStep
    \/ Finish
    \/ WorkerStart
    \/ SaveOk
    \/ Rerun

SpecTwice == Init /\ [][NextTwice]_vars

\* ---------------------------------------------- catalog/naming runs
\* The catalog and the naming as pure functions: the root range is any
\* sub-range of C4..B4 (the class's own range among them), num_chords up
\* to its default, and _get_chord_name is called directly on a catalog
\* template or on any note list over C4..C4+MaxInterval.
NoteLists ==
    {<<>>} \cup [1..3 -> C4..(C4 + MaxInterval)]

CatInit ==
    /\ low \in C4..B4
    /\ high \in low..B4
    /\ num_chords \in 0..DefaultNumChords
    /\ max_workers = 1
    /\ batch_size = RefBatchSize
    /\ dir_ok = TRUE
    /\ Blank

\* min() of an empty list raises ValueError
Raises(ns) == ns = <<>>

\* generator._get_chord_name(n)
NameOf ==
    /\ pc = "loop"
    /\ \E n \in SetOf(templates) \cup NoteLists :
          /\ notes' = n
          /\ raised' = Raises(n)
          /\ name' = IF Raises(n) THEN <<>> ELSE GetChordName(n)
    /\ pc' = "named"
    /\ UNCHANGED << config, runs, reported, templates, total, it, i, futures, pending,
                    submitted, status, queue, pbar, counted, files, fails,
                    prev_name >>

\* generator._get_chord_name(n) once more on the same list
NameAgain ==
    /\ pc = "named"
    /\ ~raised
    /\ prev_name' = name
    /\ name' = GetChordName(notes)
    /\ pc' = "renamed"
    /\ UNCHANGED << config, runs, reported, templates, total, it, i, futures, pending,
                    submitted, status, queue, pbar, counted, files, fails,
                    notes, raised >>

CatNext ==
    \/ Construct
    \/ MakeDirs
    \/ Setup
    \/ NameOf
    \/ NameAgain

SpecCat == CatInit /\ [][CatNext]_vars

\* ------------------------------------------------------------ claims
\* the N-fold Cartesian product of the catalog, as a set of sequences
Progressions(n) == [1..n -> SetOf(templates)]

NoDuplicates(s) == \A a, b \in DOMAIN s : a # b => s[a] # s[b]

\* sorted intervals of a note list from its minimum, computed on sets
IntervalSet(ns) ==
    LET m == CHOOSE x \in SetOf(ns) : \A y \in SetOf(ns) : x <= y
    IN  {x - m : x \in SetOf(ns)}

IsTriadShape(ns) == Len(ns) = 3 /\ IntervalSet(ns) \in {{0, 4, 7}, {0, 3, 7}}

\* C1: the work units submitted to the pool and not yet resolved never
\* number more than batch_size, and neither does the tracked list.
C1_InFlightBound ==
    /\ Cardinality(Unresolved) <= batch_size
    /\ Unresolved \subseteq SetOf(futures)
    /\ Len(futures) <= batch_size

C1_Witness ==
    /\ pc = "drain"
    /\ batch_size >= 2
    /\ total > batch_size
    /\ Cardinality(Unresolved) = batch_size

\* C2: for num_chords >= 1 no progression is submitted twice, never more
\* than total = K^N units are submitted, and when generate_all returns the
\* submitted progressions are exactly the N-fold product of the catalog.
C2_SubmitsProduct ==
    num_chords >= 1 =>
        /\ NoDuplicates(submitted)
        /\ Len(submitted) <= Cardinality(Progressions(num_chords))
        /\ pc \notin {"new", "init", "setup"} => Len(submitted) <= total
        /\ pc = "done" =>
              /\ SetOf(submitted) = Progressions(num_chords)
              /\ Len(submitted) = Cardinality(Progressions(num_chords))
              /\ total = Len(submitted)

C2_Witness ==
    /\ pc = "done"
    /\ num_chords = 2
    /\ Len(templates) = 4
    /\ Len(submitted) = 16

\* C3: no unit advances the progress counter twice, and when generate_all
\* returns every submitted unit has advanced it once: processed = total.
C3_ProcessedEqualsTotal ==
    /\ \A u \in Units : counted[u] <= 1
    /\ pc = "done" =>
          /\ pbar = total
          /\ Len(submitted) = total
          /\ \A u \in Units : counted[u] = 1

C3_Witness ==
    /\ pc = "done"
    /\ total = 4
    /\ batch_size = 3
    /\ pbar = 4
    /\ Len(futures) = 1

\* C4: a render that fails never aborts the run, and when generate_all
\* returns with any renders failed, processed = total, every unit of the
\* product was submitted and resolved, and the file of every unit whose
\* render succeeded is on disk.
C4_FailureIsolation ==
    /\ (dir_ok /\ num_chords >= 0) => pc # "aborted"
    /\ pc = "done" =>
          /\ pbar = total
          /\ Len(submitted) = total
          /\ \A u \in Units :
                /\ status[u] \in {"ok", "failed"}
                /\ status[u] = "ok" => Filename(submitted[u]) \in files

C4_Witness ==
    /\ pc = "done"
    /\ fails >= 1
    /\ total = 16
    /\ \E u, v \in Units : status[u] = "failed" /\ status[v] = "ok" /\ u < v

\* C5: when every render succeeded, the files under output_dir at the end
\* of the run are total = K^N in number, and processed = total.
C5_AllFilesWritten ==
    (pc = "done" /\ fails = 0) =>
        /\ total = Cardinality(Progressions(num_chords))
        /\ Cardinality(files) = total
        /\ pbar = total

C5_Witness ==
    /\ pc = "done"
    /\ fails = 0
    /\ Len(templates) = 4
    /\ num_chords = 2
    /\ max_workers = 2
    /\ batch_size = 2
    /\ Cardinality(files) = 16
    /\ pbar = 16

\* C6: the chord name is injective over the catalog templates, and any
\* two distinct progressions over the catalog get distinct filenames.
C6_DistinctFilenames ==
    (pc = "loop" /\ num_chords <= MaxNameChords) =>
        /\ \A a, b \in DOMAIN templates :
              a # b => GetChordName(templates[a]) # GetChordName(templates[b])
        /\ Cardinality({Filename(p) : p \in Progressions(num_chords)})
              = Cardinality(Progressions(num_chords))

C6_Witness ==
    /\ pc = "loop"
    /\ low = C4
    /\ high = B4
    /\ num_chords = 2
    /\ Len(templates) = 24

\* C7: the catalog for the root range [low, high] has 2 * (high - low + 1)
\* templates, each of 3 pitches with intervals [0,4,7] or [0,3,7].
C7_CatalogShape ==
    pc # "new" =>
        /\ Len(templates) = 2 * (high - low + 1)
        /\ \A k \in DOMAIN templates : IsTriadShape(templates[k])

C7_Witness ==
    /\ pc = "init"
    /\ low = C4 + 1
    /\ high = C4 + 5
    /\ Len(templates) = 10

\* C8 as stated: the reference catalog holds 48 templates and num_chords = 4
\* gives total = 5,308,416.
C8_Original ==
    (pc = "loop" /\ low = C4 /\ high = B4 /\ num_chords = DefaultNumChords) =>
        /\ Len(templates) = 48
        /\ total = 5308416

\* C8 amended: the reference catalog (roots C4..B4) holds 24 templates and
\* num_chords = 4 gives total = 24 ** 4 = 331,776.
C8_ReferenceTotal ==
    (pc = "loop" /\ low = C4 /\ high = B4 /\ num_chords = DefaultNumChords) =>
        /\ Len(templates) = 24
        /\ total = 331776

C8_Witness ==
    /\ pc = "loop"
    /\ low = C4
    /\ high = B4
    /\ num_chords = DefaultNumChords
    /\ total > 0

\* C9: the naming of a 3-note list whose intervals are neither [0,4,7] nor
\* [0,3,7] fails instead of returning a chord name.
C9_OtherShapesFail ==
    (pc = "named" /\ Len(notes) = 3 /\ ~IsTriadShape(notes)) => raised

\* C10: for a catalog template the naming returns the pitch name of its
\* minimum note followed by _major when it was generated from [0,4,7] and
\* by _minor when from [0,3,7]; [48,52,55] gives C_major; a second call
\* returns the same name.
AsciiPitchNames ==
    << <<"C">>, <<"C", "#">>, <<"D">>, <<"E", "b">>, <<"E">>, <<"F">>,
       <<"F", "#">>, <<"G">>, <<"G", "#">>, <<"A">>, <<"B", "b">>, <<"B">> >>

C10_NameMatchesShape ==
    \A k \in DOMAIN templates :
        (pc \in {"named", "renamed"} /\ notes = templates[k]) =>
            LET m == CHOOSE x \in SetOf(notes) : \A y \in SetOf(notes) : x <= y
                fromMajor == k <= high - low + 1
            IN  /\ ~raised
                /\ name = AsciiPitchNames[(m % 12) + 1] \o
                          (IF fromMajor THEN <<"_", "m", "a", "j", "o", "r">>
                                        ELSE <<"_", "m", "i", "n", "o", "r">>)
                /\ notes = <<48, 52, 55>> =>
                      name = <<"C", "_", "m", "a", "j", "o", "r">>
                /\ pc = "renamed" => name = prev_name

C10_Witness ==
    /\ pc = "renamed"
    /\ notes = <<51, 54, 58>>
    /\ name = <<"E", "b", "_", "m", "i", "n", "o", "r">>
    /\ prev_name = name

\* C11: a setup error (the output directory cannot be created, or
\* num_chords is negative) aborts generate_all before any submission: the
\* run never enters the loop, and in the aborted run nothing was
\* submitted, nothing counted and no file written.
C11_SetupErrorAborts ==
    /\ (~dir_ok \/ num_chords < 0) =>
          /\ pc \in {"new", "init", "setup", "aborted"}
          /\ submitted = <<>>
          /\ queue = <<>>
    /\ pc = "aborted" =>
          /\ Len(submitted) = 0
          /\ pbar = 0
          /\ files = {}

C11_Witness ==
    /\ pc = "aborted"
    /\ dir_ok
    /\ num_chords < 0
    /\ Len(templates) = 4

\* C12: never more than max_workers units are rendering at once, and every
\* unit submitted and neither rendering nor resolved waits in the pool's
\* queue.
C12_WorkerSlots ==
    /\ Cardinality(Running) <= max_workers
    /\ SetOf(queue) = {u \in Units : status[u] = "queued"}
    /\ Len(queue) = Cardinality(SetOf(queue))

C12_Witness ==
    /\ max_workers = 2
    /\ Cardinality(Running) = 2
    /\ Len(queue) >= 2

C14_FailuresCounted ==
    pc = "done" =>
        /\ reported = Cardinality({u \in Units : status[u] = "ok"})
        /\ pbar - reported = Cardinality({u \in Units : status[u] = "failed"})

\* C15: the u-th unit submitted is the u-th progression of the product in
\* lexicographic order (last position fastest) over the catalog order, all
\* major templates by ascending root and then all minor ones, in every
\* state of every interleaving.
ExpectedTemplate(k) ==
    LET roots == high - low + 1
    IN  IF k <= roots
          THEN <<low + k - 1, low + k - 1 + 4, low + k - 1 + 7>>
          ELSE <<low + k - roots - 1, low + k - roots - 1 + 3,
                 low + k - roots - 1 + 7>>

RECURSIVE Radix(_, _)
Radix(b, e) == IF e = 0 THEN 1 ELSE b * Radix(b, e - 1)

ExpectedUnit(u) ==
    LET K == 2 * (high - low + 1)
    IN  [k \in 1..num_chords |->
            ExpectedTemplate((((u - 1) \div Radix(K, num_chords - k)) % K) + 1)]

C15_SubmissionOrder ==
    \A u \in Units : submitted[u] = ExpectedUnit(u)

C15_Witness ==
    /\ num_chords = 2
    /\ Len(submitted) = 16
    /\ \E u, v \in Units : u < v /\ status[u] = "running" /\ status[v] = "ok"

C17_ProgressBounded ==
    /\ [](pbar <= Cardinality(Resolved) /\ pbar <= Len(submitted))
    /\ [][ /\ pbar' >= pbar
           /\ pbar' # pbar =>
                 /\ pbar' = pbar + 1
                 /\ status' = status
                 /\ files' = files
                 /\ \E f \in Resolved : counted'[f] = counted[f] + 1 ]_vars

C17_Witness ==
    /\ pc = "drain"
    /\ pbar >= 1
    /\ pbar < Cardinality(Resolved)
    /\ Unresolved # {}

\* C18: the step in which a render returns changes that unit's result and
\* at most its own file; the tracked list, the drain, the progress counter,
\* the enumeration and every other unit's result and file stay as they are.
C18_WorkerFrame ==
    [][ \A u \in Units :
          (Len(status') = Len(status) /\ status[u] = "running"
              /\ status'[u] \in {"ok", "failed"}) =>
             /\ futures' = futures
             /\ pending' = pending
             /\ pbar' = pbar
             /\ counted' = counted
             /\ it' = it
             /\ i' = i
             /\ pc' = pc
             /\ submitted' = submitted
             /\ \A v \in Units \ {u} : status'[v] = status[v]
             /\ files \subseteq files'
             /\ files' \ files \subseteq {Filename(submitted[u])} ]_vars

C18_Witness ==
    \E u, v \in Units :
        /\ status[u] = "ok"
        /\ Filename(submitted[u]) \in files
        /\ counted[u] = 0
        /\ u \in SetOf(futures)
        /\ status[v] = "running"
        /\ Filename(submitted[v]) \notin files

\* C19: with the threads scheduled fairly and every render returning, a
\* drain always ends, and a run whose setup succeeds ends returned, with
\* every submitted unit resolved and counted.
C19_Terminates ==
    /\ (pc = "drain") ~> (pc = "loop")
    /\ (dir_ok /\ num_chords >= 0) =>
          <>[](/\ pc = "done"
               /\ Unresolved = {}
               /\ \A u \in Units : counted[u] = 1)

C19_Witness ==
    /\ pc = "done"
    /\ batch_size = 3
    /\ max_workers = 2
    /\ total = 4
    /\ fails = 1
    /\ Unresolved = {}

\* C20: for num_chords = 0 the run is not aborted: total is 1, one unit with
\* the empty progression is submitted and counted, and the only file it can
\* write is ".mid".
C20_EmptyProgression ==
    num_chords = 0 =>
        /\ dir_ok => pc # "aborted"
        /\ pc \in {"loop", "drain", "final", "done"} => total = 1
        /\ files \subseteq {<<".", "m", "i", "d">>}
        /\ pc = "done" =>
              /\ submitted = << <<>> >>
              /\ pbar = 1
              /\ counted = <<1>>
              /\ status[1] = "ok" => files = {<<".", "m", "i", "d">>}

C20_Witness ==
    /\ num_chords = 0
    /\ pc = "done"
    /\ Len(templates) = 4
    /\ files = {<<".", "m", "i", "d">>}

====
